---- MODULE Spec2Model ----
(***************************************************************************)
(* CIEEE754: rounding control, hardware exception inspection, the          *)
(* thread-local software exception store and the signaling comparisons.    *)
(*                                                                         *)
(* Every API call is one atomic step of the calling thread: the state a    *)
(* call touches (the thread's pthread-specific slot, the block it points   *)
(* to, the thread's floating-point environment) is private to the thread,  *)
(* and pthread_once / calloc / free are thread-safe.                       *)
(*                                                                         *)
(* pthread_key_create and pthread_setspecific are taken to succeed (their   *)
(* results are ignored by the code).  calloc may fail: get_thread_state    *)
(* then returns NULL, and a caller that goes through the pointer           *)
(* dereferences it and the process dies inside the call                    *)
(* (proc = "crashed"), no call returning after that; raise, test and clear *)
(* of a flag value their switch has no case for never touch the pointer    *)
(* and return.                                                             *)
(*                                                                         *)
(* The enum parameters are C ints: clients may pass values outside the     *)
(* enumerators, which reach the switches' default paths.                   *)
(***************************************************************************)
EXTENDS Integers, FiniteSets, Sequences, TLC

\* ------------------------------------------------------------------ bounds
NThreads == 2          \* execution contexts (threads) of the process
MaxOps == 2            \* API calls and environment steps in one run of Spec
MaxFlagArg == 5        \* flag identifiers passed by clients: 0..MaxFlagArg
MaxModeArg == 4        \* rounding modes passed by clients: 0..MaxModeArg
ExpMax == 2            \* biased exponent of an operand: 0..ExpMax
ManMax == 3            \* trailing significand of an operand: 0..ManMax

Threads == 1..NThreads
MainThread == 1
NULL == 0
Addrs == 1..NThreads   \* heap blocks calloc can hand out
FlagArgs == 0..MaxFlagArg
ModeArgs == 0..MaxModeArg

\* ------------------------------------------------- ieee754_fpu.h constants
IEEE754_ROUND_TONEAREST == 0
IEEE754_ROUND_DOWNWARD == 1
IEEE754_ROUND_UPWARD == 2
IEEE754_ROUND_TOWARDZERO == 3

IEEE754_EXCEPTION_INVALID == 0
IEEE754_EXCEPTION_DIVBYZERO == 1
IEEE754_EXCEPTION_OVERFLOW == 2
IEEE754_EXCEPTION_UNDERFLOW == 3
IEEE754_EXCEPTION_INEXACT == 4

\* <fenv.h>: the platform's macros, kept symbolic (their values differ per
\* platform; the standard only makes them distinct).
FE_ALL_EXCEPT == {"FE_INVALID", "FE_DIVBYZERO", "FE_OVERFLOW", "FE_UNDERFLOW", "FE_INEXACT"}
FE_ROUND_MODES == {"FE_TONEAREST", "FE_DOWNWARD", "FE_UPWARD", "FE_TOWARDZERO"}
\* what fegetround() can report: a standard mode, or a value outside the four
\* (a platform-specific mode, or the negative "cannot tell" value)
NativeRoundValues == FE_ROUND_MODES \cup {"FE_OTHER"}

\* ------------------------------------------------------------------- state
VARIABLES
    proc,          \* "running" | "crashed" (the process took a fatal signal)
    status,        \* status[t]: "running" | "exited"
    key_once,      \* pthread_once_t key_once: "init" | "done"
    tsd,           \* tsd[t]: pthread_getspecific(exception_key) of thread t
    heap,          \* heap[a]: [live, mem] a ThreadExceptionState block
    frees,         \* frees[a]: number of free() calls made on block a
    fpu_flags,     \* fpu_flags[t]: hardware exception flags raised in t
    fpu_round,     \* fpu_round[t]: native rounding direction of t
    fe_supported,  \* rounding directions fesetround() can establish here
    opx, opy,      \* the two operands the client compares
    last,          \* the call that just returned: [op, t, arg, ret, set]
    budget         \* steps the run may still take (Unbounded: no limit)

vars == <<proc, status, key_once, tsd, heap, frees, fpu_flags, fpu_round, fe_supported, opx, opy, last, budget>>

Unbounded == -1

\* one more step is allowed, and it is counted
Step ==
    /\ budget # 0
    /\ budget' = IF budget = Unbounded THEN Unbounded ELSE budget - 1

\* the flag values the switches of raise, test and clear have a case for
DefinedFlags == {IEEE754_EXCEPTION_INVALID, IEEE754_EXCEPTION_DIVBYZERO, IEEE754_EXCEPTION_OVERFLOW, IEEE754_EXCEPTION_UNDERFLOW, IEEE754_EXCEPTION_INEXACT}

\* ThreadExceptionState as calloc returns it
ZeroState == [invalid |-> 0, divByZero |-> 0, overflow |-> 0, underflow |-> 0, inexact |-> 0]

Running(t) == proc = "running" /\ status[t] = "running"

\* blocks that are not live
FreeAddrs == {a \in Addrs : ~heap[a].live}

\* The outcomes of the calloc call inside get_thread_state (none when the
\* thread already has its block): NULL when the allocation fails, else a
\* block that is not live.  Blocks are interchangeable, so the allocator is
\* taken to be first-fit: a block freed by an exited thread is handed out
\* again before an untouched one.
CallocChoices(t) ==
    IF tsd[t] # NULL THEN {NULL}
    ELSE {NULL} \cup {a \in FreeAddrs : \A b \in FreeAddrs : a <= b}

\* get_thread_state with the block kept in one process-wide pointer instead
\* of the calling thread's slot
get_thread_state_shared(t, a) ==
    LET owners == {u \in Threads : tsd[u] # NULL} IN
    IF tsd[t] # NULL
    THEN [state |-> tsd[t], tsd |-> tsd, heap |-> heap]
    ELSE IF owners # {}
    THEN LET b == tsd[CHOOSE u \in owners : TRUE] IN
         [state |-> b, tsd |-> [tsd EXCEPT ![t] = b], heap |-> heap]
    ELSE [state |-> a,
          tsd |-> [tsd EXCEPT ![t] = a],
          heap |-> IF a = NULL THEN heap
                   ELSE [heap EXCEPT ![a] = [live |-> TRUE, mem |-> ZeroState]]]

\* get_thread_state whose allocator hands the block out with the contents
\* it was freed with
get_thread_state_malloc(t, a) ==
    IF tsd[t] # NULL
    THEN [state |-> tsd[t], tsd |-> tsd, heap |-> heap]
    ELSE [state |-> a,
          tsd |-> [tsd EXCEPT ![t] = a],
          heap |-> IF a = NULL THEN heap
                   ELSE [heap EXCEPT ![a].live = TRUE]]

\* get_thread_state for thread t when calloc (if called) returns a: the
\* pointer returned, and the slot and heap after the call
get_thread_state(t, a) ==
    IF tsd[t] # NULL
    THEN [state |-> tsd[t], tsd |-> tsd, heap |-> heap]
    ELSE [state |-> a,
          tsd |-> [tsd EXCEPT ![t] = a],
          heap |-> IF a = NULL THEN heap
                   ELSE [heap EXCEPT ![a] = [live |-> TRUE, mem |-> ZeroState]]]

\* raise that rewrites the whole block, keeping only the raised flag
raise_flag_only(mem, flag) ==
    CASE flag = IEEE754_EXCEPTION_INVALID -> [ZeroState EXCEPT !.invalid = 1]
      [] flag = IEEE754_EXCEPTION_DIVBYZERO -> [ZeroState EXCEPT !.divByZero = 1]
      [] flag = IEEE754_EXCEPTION_OVERFLOW -> [ZeroState EXCEPT !.overflow = 1]
      [] flag = IEEE754_EXCEPTION_UNDERFLOW -> [ZeroState EXCEPT !.underflow = 1]
      [] flag = IEEE754_EXCEPTION_INEXACT -> [ZeroState EXCEPT !.inexact = 1]
      [] OTHER -> mem

\* raise that flips the flag instead of setting it
raise_flag_toggle(mem, flag) ==
    CASE flag = IEEE754_EXCEPTION_INVALID -> [mem EXCEPT !.invalid = 1 - @]
      [] flag = IEEE754_EXCEPTION_DIVBYZERO -> [mem EXCEPT !.divByZero = 1 - @]
      [] flag = IEEE754_EXCEPTION_OVERFLOW -> [mem EXCEPT !.overflow = 1 - @]
      [] flag = IEEE754_EXCEPTION_UNDERFLOW -> [mem EXCEPT !.underflow = 1 - @]
      [] flag = IEEE754_EXCEPTION_INEXACT -> [mem EXCEPT !.inexact = 1 - @]
      [] OTHER -> mem

\* the switch of ieee754_raise_exception: no case for any other flag value
raise_flag(mem, flag) ==
    CASE flag = IEEE754_EXCEPTION_INVALID -> [mem EXCEPT !.invalid = 1]
      [] flag = IEEE754_EXCEPTION_DIVBYZERO -> [mem EXCEPT !.divByZero = 1]
      [] flag = IEEE754_EXCEPTION_OVERFLOW -> [mem EXCEPT !.overflow = 1]
      [] flag = IEEE754_EXCEPTION_UNDERFLOW -> [mem EXCEPT !.underflow = 1]
      [] flag = IEEE754_EXCEPTION_INEXACT -> [mem EXCEPT !.inexact = 1]
      [] OTHER -> mem

\* clear that wipes the whole block whenever it clears a flag
clear_flag_block(mem, flag) ==
    CASE flag = IEEE754_EXCEPTION_INVALID -> ZeroState
      [] flag = IEEE754_EXCEPTION_DIVBYZERO -> ZeroState
      [] flag = IEEE754_EXCEPTION_OVERFLOW -> ZeroState
      [] flag = IEEE754_EXCEPTION_UNDERFLOW -> ZeroState
      [] flag = IEEE754_EXCEPTION_INEXACT -> ZeroState
      [] OTHER -> mem

\* the switch of ieee754_clear_exception: no case for any other flag value
clear_flag(mem, flag) ==
    CASE flag = IEEE754_EXCEPTION_INVALID -> [mem EXCEPT !.invalid = 0]
      [] flag = IEEE754_EXCEPTION_DIVBYZERO -> [mem EXCEPT !.divByZero = 0]
      [] flag = IEEE754_EXCEPTION_OVERFLOW -> [mem EXCEPT !.overflow = 0]
      [] flag = IEEE754_EXCEPTION_UNDERFLOW -> [mem EXCEPT !.underflow = 0]
      [] flag = IEEE754_EXCEPTION_INEXACT -> [mem EXCEPT !.inexact = 0]
      [] OTHER -> mem

\* test whose default case returns 1
test_flag_default_one(mem, flag) ==
    CASE flag = IEEE754_EXCEPTION_INVALID -> mem.invalid
      [] flag = IEEE754_EXCEPTION_DIVBYZERO -> mem.divByZero
      [] flag = IEEE754_EXCEPTION_OVERFLOW -> mem.overflow
      [] flag = IEEE754_EXCEPTION_UNDERFLOW -> mem.underflow
      [] flag = IEEE754_EXCEPTION_INEXACT -> mem.inexact
      [] OTHER -> 1

\* the switch of ieee754_test_exception: mem is read only in the five cases
test_flag(mem, flag) ==
    CASE flag = IEEE754_EXCEPTION_INVALID -> mem.invalid
      [] flag = IEEE754_EXCEPTION_DIVBYZERO -> mem.divByZero
      [] flag = IEEE754_EXCEPTION_OVERFLOW -> mem.overflow
      [] flag = IEEE754_EXCEPTION_UNDERFLOW -> mem.underflow
      [] flag = IEEE754_EXCEPTION_INEXACT -> mem.inexact
      [] OTHER -> 0

\* a copy that crosses the overflow and underflow fields
copy_flags_crossed(mem) ==
    [invalid |-> mem.invalid, divByZero |-> mem.divByZero, overflow |-> mem.underflow,
     underflow |-> mem.overflow, inexact |-> mem.inexact]

\* ieee754_get_exceptions: the field-by-field copy
copy_flags(mem) ==
    [invalid |-> mem.invalid, divByZero |-> mem.divByZero, overflow |-> mem.overflow,
     underflow |-> mem.underflow, inexact |-> mem.inexact]

\* the record of a returned call: arg and ret are integers (NoValue when the
\* call has none), set the flag set a snapshot call returns
NoValue == -1

Call(op, t, arg, ret, set) == [op |-> op, t |-> t, arg |-> arg, ret |-> ret, set |-> set]

\* pthread_once has run and the thread's slot holds what get_thread_state
\* left there
Entered(g) ==
    /\ key_once' = "done"
    /\ tsd' = g.tsd

\* get_thread_state returned NULL and the caller dereferences it: the
\* process dies inside the call
NullDeref(g, name, t, arg) ==
    /\ proc' = "crashed"
    /\ heap' = g.heap
    /\ last' = Call(name, t, arg, NoValue, ZeroState)

\* get_thread_state returned NULL and the caller's switch has no case for
\* the flag: nothing is dereferenced, the call returns ret and the thread
\* still has no block
ReturnsUntouched(g, name, t, arg, ret) ==
    /\ proc' = proc
    /\ heap' = g.heap
    /\ last' = Call(name, t, arg, ret, ZeroState)

\* the call returns ret (or the flag set), leaving the block of g with
\* contents mem
Returns(g, mem, name, t, arg, ret, set) ==
    /\ proc' = proc
    /\ heap' = [g.heap EXCEPT ![g.state].mem = mem]
    /\ last' = Call(name, t, arg, ret, set)

ieee754_raise_exception(t, flag) ==
    /\ Running(t)
    /\ Step
    /\ \E a \in CallocChoices(t) :
         LET g == get_thread_state(t, a) IN
           /\ Entered(g)
           /\ IF g.state = NULL
              THEN IF flag \in DefinedFlags
                   THEN NullDeref(g, "raise", t, flag)
                   ELSE ReturnsUntouched(g, "raise", t, flag, NoValue)
              ELSE Returns(g, raise_flag(g.heap[g.state].mem, flag), "raise", t, flag, NoValue, ZeroState)
    /\ UNCHANGED <<status, frees, fpu_flags, fpu_round, fe_supported, opx, opy>>

ieee754_test_exception(t, flag) ==
    /\ Running(t)
    /\ Step
    /\ \E a \in CallocChoices(t) :
         LET g == get_thread_state(t, a) IN
           /\ Entered(g)
           /\ IF g.state = NULL
              THEN IF flag \in DefinedFlags
                   THEN NullDeref(g, "test", t, flag)
                   ELSE ReturnsUntouched(g, "test", t, flag, test_flag(ZeroState, flag))
              ELSE Returns(g, g.heap[g.state].mem, "test", t, flag,
                           test_flag(g.heap[g.state].mem, flag), ZeroState)
    /\ UNCHANGED <<status, frees, fpu_flags, fpu_round, fe_supported, opx, opy>>

ieee754_clear_exception(t, flag) ==
    /\ Running(t)
    /\ Step
    /\ \E a \in CallocChoices(t) :
         LET g == get_thread_state(t, a) IN
           /\ Entered(g)
           /\ IF g.state = NULL
              THEN IF flag \in DefinedFlags
                   THEN NullDeref(g, "clear", t, flag)
                   ELSE ReturnsUntouched(g, "clear", t, flag, NoValue)
              ELSE Returns(g, clear_flag(g.heap[g.state].mem, flag), "clear", t, flag, NoValue, ZeroState)
    /\ UNCHANGED <<status, frees, fpu_flags, fpu_round, fe_supported, opx, opy>>

\* getAll that resets the five flags once it has copied them
ieee754_get_exceptions_consuming(t) ==
    /\ Running(t)
    /\ Step
    /\ \E a \in CallocChoices(t) :
         LET g == get_thread_state(t, a) IN
           /\ Entered(g)
           /\ IF g.state = NULL
              THEN NullDeref(g, "getAll", t, NoValue)
              ELSE Returns(g, ZeroState, "getAll", t, NoValue,
                           NoValue, copy_flags(g.heap[g.state].mem))
    /\ UNCHANGED <<status, frees, fpu_flags, fpu_round, fe_supported, opx, opy>>

ieee754_get_exceptions(t) ==
    /\ Running(t)
    /\ Step
    /\ \E a \in CallocChoices(t) :
         LET g == get_thread_state(t, a) IN
           /\ Entered(g)
           /\ IF g.state = NULL
              THEN NullDeref(g, "getAll", t, NoValue)
              ELSE Returns(g, g.heap[g.state].mem, "getAll", t, NoValue,
                           NoValue, copy_flags(g.heap[g.state].mem))
    /\ UNCHANGED <<status, frees, fpu_flags, fpu_round, fe_supported, opx, opy>>

\* clearAll whose memset covers the first field of the block only
ieee754_clear_all_exceptions_first(t) ==
    /\ Running(t)
    /\ Step
    /\ \E a \in CallocChoices(t) :
         LET g == get_thread_state(t, a) IN
           /\ Entered(g)
           /\ IF g.state = NULL
              THEN NullDeref(g, "clearAll", t, NoValue)
              ELSE Returns(g, [g.heap[g.state].mem EXCEPT !.invalid = 0],
                           "clearAll", t, NoValue, NoValue, ZeroState)
    /\ UNCHANGED <<status, frees, fpu_flags, fpu_round, fe_supported, opx, opy>>

\* memset(state, 0, sizeof(ThreadExceptionState))
ieee754_clear_all_exceptions(t) ==
    /\ Running(t)
    /\ Step
    /\ \E a \in CallocChoices(t) :
         LET g == get_thread_state(t, a) IN
           /\ Entered(g)
           /\ IF g.state = NULL
              THEN NullDeref(g, "clearAll", t, NoValue)
              ELSE Returns(g, ZeroState, "clearAll", t, NoValue, NoValue, ZeroState)
    /\ UNCHANGED <<status, frees, fpu_flags, fpu_round, fe_supported, opx, opy>>

\* cleanup_thread_exceptions: the key's destructor
cleanup_thread_exceptions(a) ==
    /\ heap' = [heap EXCEPT ![a].live = FALSE]
    /\ frees' = [frees EXCEPT ![a] = @ + 1]

\* a thread end that runs no destructor
ThreadExit_no_destructor(t) ==
    /\ Running(t)
    /\ Step
    /\ status' = [status EXCEPT ![t] = "exited"]
    /\ UNCHANGED <<heap, frees, tsd>>
    /\ last' = Call("exit", t, NoValue, NoValue, ZeroState)
    /\ UNCHANGED <<proc, key_once, fpu_flags, fpu_round, fe_supported, opx, opy>>

\* Thread t terminates: the pthread library runs the key's destructor on the
\* thread's value when that value is not NULL.
ThreadExit(t) ==
    /\ Running(t)
    /\ Step
    /\ status' = [status EXCEPT ![t] = "exited"]
    /\ IF tsd[t] # NULL
       THEN /\ cleanup_thread_exceptions(tsd[t])
            /\ tsd' = [tsd EXCEPT ![t] = NULL]
       ELSE UNCHANGED <<heap, frees, tsd>>
    /\ last' = Call("exit", t, NoValue, NoValue, ZeroState)
    /\ UNCHANGED <<proc, key_once, fpu_flags, fpu_round, fe_supported, opx, opy>>

\* ------------------------------------------- hardware exception inspector
\* fetestexcept(excepts) in thread t
fetestexcept(t, excepts) == fpu_flags[t] \cap excepts

Bit(b) == IF b THEN 1 ELSE 0

\* testHardware that clears the flags it has read
ieee754_test_fpu_exceptions_consuming(t) ==
    /\ Running(t)
    /\ Step
    /\ LET flags == fetestexcept(t, FE_ALL_EXCEPT) IN
         last' = Call("testHardware", t, NoValue, NoValue,
                      [invalid |-> Bit("FE_INVALID" \in flags),
                       divByZero |-> Bit("FE_DIVBYZERO" \in flags),
                       overflow |-> Bit("FE_OVERFLOW" \in flags),
                       underflow |-> Bit("FE_UNDERFLOW" \in flags),
                       inexact |-> Bit("FE_INEXACT" \in flags)])
    /\ fpu_flags' = [fpu_flags EXCEPT ![t] = @ \ FE_ALL_EXCEPT]
    /\ UNCHANGED <<proc, status, key_once, tsd, heap, frees, fpu_round, fe_supported, opx, opy>>

ieee754_test_fpu_exceptions(t) ==
    /\ Running(t)
    /\ Step
    /\ LET flags == fetestexcept(t, FE_ALL_EXCEPT) IN
         last' = Call("testHardware", t, NoValue, NoValue,
                      [invalid |-> Bit("FE_INVALID" \in flags),
                       divByZero |-> Bit("FE_DIVBYZERO" \in flags),
                       overflow |-> Bit("FE_OVERFLOW" \in flags),
                       underflow |-> Bit("FE_UNDERFLOW" \in flags),
                       inexact |-> Bit("FE_INEXACT" \in flags)])
    /\ UNCHANGED <<proc, status, key_once, tsd, heap, frees, fpu_flags, fpu_round, fe_supported, opx, opy>>

\* clearHardware that also wipes the caller's software flags
ieee754_clear_fpu_exceptions_both(t) ==
    /\ Running(t)
    /\ Step
    /\ fpu_flags' = [fpu_flags EXCEPT ![t] = @ \ FE_ALL_EXCEPT]
    /\ heap' = IF tsd[t] = NULL THEN heap
               ELSE [heap EXCEPT ![tsd[t]].mem = ZeroState]
    /\ last' = Call("clearHardware", t, NoValue, NoValue, ZeroState)
    /\ UNCHANGED <<proc, status, key_once, tsd, frees, fpu_round, fe_supported, opx, opy>>

ieee754_clear_fpu_exceptions(t) ==
    /\ Running(t)
    /\ Step
    /\ fpu_flags' = [fpu_flags EXCEPT ![t] = @ \ FE_ALL_EXCEPT]
    /\ last' = Call("clearHardware", t, NoValue, NoValue, ZeroState)
    /\ UNCHANGED <<proc, status, key_once, tsd, heap, frees, fpu_round, fe_supported, opx, opy>>

\* A floating-point instruction of other code running in thread t raises
\* the hardware flag e.
fp_operation(t, e) ==
    /\ Running(t)
    /\ Step
    /\ fpu_flags' = [fpu_flags EXCEPT ![t] = @ \cup {e}]
    /\ last' = Call("fp_operation", t, NoValue, NoValue, ZeroState)
    /\ UNCHANGED <<proc, status, key_once, tsd, heap, frees, fpu_round, fe_supported, opx, opy>>

\* ------------------------------------------------------ rounding control
\* the mode switch with the two directed modes exchanged
ieee754_to_fe_round_swapped(mode) ==
    CASE mode = IEEE754_ROUND_TONEAREST -> "FE_TONEAREST"
      [] mode = IEEE754_ROUND_DOWNWARD -> "FE_UPWARD"
      [] mode = IEEE754_ROUND_UPWARD -> "FE_DOWNWARD"
      [] mode = IEEE754_ROUND_TOWARDZERO -> "FE_TOWARDZERO"
      [] OTHER -> "FE_TONEAREST"

ieee754_to_fe_round(mode) ==
    CASE mode = IEEE754_ROUND_TONEAREST -> "FE_TONEAREST"
      [] mode = IEEE754_ROUND_DOWNWARD -> "FE_DOWNWARD"
      [] mode = IEEE754_ROUND_UPWARD -> "FE_UPWARD"
      [] mode = IEEE754_ROUND_TOWARDZERO -> "FE_TOWARDZERO"
      [] OTHER -> "FE_TONEAREST"

\* the native switch with an error value as its default
fe_round_to_ieee754_nodefault(fe_mode) ==
    CASE fe_mode = "FE_TONEAREST" -> IEEE754_ROUND_TONEAREST
      [] fe_mode = "FE_DOWNWARD" -> IEEE754_ROUND_DOWNWARD
      [] fe_mode = "FE_UPWARD" -> IEEE754_ROUND_UPWARD
      [] fe_mode = "FE_TOWARDZERO" -> IEEE754_ROUND_TOWARDZERO
      [] OTHER -> -1

fe_round_to_ieee754(fe_mode) ==
    CASE fe_mode = "FE_TONEAREST" -> IEEE754_ROUND_TONEAREST
      [] fe_mode = "FE_DOWNWARD" -> IEEE754_ROUND_DOWNWARD
      [] fe_mode = "FE_UPWARD" -> IEEE754_ROUND_UPWARD
      [] fe_mode = "FE_TOWARDZERO" -> IEEE754_ROUND_TOWARDZERO
      [] OTHER -> IEEE754_ROUND_TONEAREST

\* fesetround(fe_mode): zero if and only if the direction was established
fesetround_ok(fe_mode) == fe_mode \in fe_supported

ieee754_set_rounding_mode(t, mode) ==
    /\ Running(t)
    /\ Step
    /\ LET fe_mode == ieee754_to_fe_round(mode) IN
         /\ fpu_round' = IF fesetround_ok(fe_mode)
                         THEN [fpu_round EXCEPT ![t] = fe_mode]
                         ELSE fpu_round
         /\ last' = Call("setRoundingMode", t, mode,
                          IF fesetround_ok(fe_mode) THEN 0 ELSE 1, ZeroState)
    /\ UNCHANGED <<proc, status, key_once, tsd, heap, frees, fpu_flags, fe_supported, opx, opy>>

ieee754_get_rounding_mode(t) ==
    /\ Running(t)
    /\ Step
    /\ LET fe_mode == fpu_round[t] IN
         last' = Call("getRoundingMode", t, NoValue, fe_round_to_ieee754(fe_mode), ZeroState)
    /\ UNCHANGED <<proc, status, key_once, tsd, heap, frees, fpu_flags, fpu_round, fe_supported, opx, opy>>

\* Other code running in thread t puts the native environment in a rounding
\* direction outside the four standard ones.
native_round_extension(t) ==
    /\ Running(t)
    /\ Step
    /\ fpu_round[t] # "FE_OTHER"
    /\ fpu_round' = [fpu_round EXCEPT ![t] = "FE_OTHER"]
    /\ last' = Call("native_round_extension", t, NoValue, NoValue, ZeroState)
    /\ UNCHANGED <<proc, status, key_once, tsd, heap, frees, fpu_flags, fe_supported, opx, opy>>

\* ------------------------------------------------- signaling comparisons
\* A binary floating-point datum: sign, biased exponent, trailing
\* significand.  exp = ExpMax is infinity (man = 0) or NaN (man # 0, quiet
\* when the top significand bit is set); exp = 0 is zero or subnormal.
Operands == [sign : 0..1, exp : 0..ExpMax, man : 0..ManMax]

\* isnan(x)
isnan(x) == x.exp = ExpMax /\ x.man # 0

IsQuiet(x) == isnan(x) /\ 2 * x.man > ManMax

RECURSIVE Pow2(_)
Pow2(n) == IF n <= 0 THEN 1 ELSE 2 * Pow2(n - 1)

\* the number a non-NaN datum stands for, in units of the smallest
\* subnormal; an infinity lies one binade beyond the largest finite datum
Value(x) ==
    (IF x.sign = 1 THEN -1 ELSE 1)
      * (IF x.exp = 0 THEN x.man ELSE (ManMax + 1 + x.man) * Pow2(x.exp - 1))

\* the C operators on floating operands (false on unordered, != true)
c_eq(x, y) == ~isnan(x) /\ ~isnan(y) /\ Value(x) = Value(y)

c_lt(x, y) == ~isnan(x) /\ ~isnan(y) /\ Value(x) < Value(y)

c_le(x, y) == ~isnan(x) /\ ~isnan(y) /\ Value(x) <= Value(y)

c_gt(x, y) == ~isnan(x) /\ ~isnan(y) /\ Value(x) > Value(y)

c_ge(x, y) == ~isnan(x) /\ ~isnan(y) /\ Value(x) >= Value(y)

c_ne(x, y) == ~c_eq(x, y)

\* the shared body without the feraiseexcept call
SignalingCompare_no_feraise(t, name, x, y, unordered, rel) ==
    /\ Running(t)
    /\ Step
    /\ IF isnan(x) \/ isnan(y)
       THEN /\ fpu_flags' = fpu_flags
            /\ \E a \in CallocChoices(t) :
                 LET g == get_thread_state(t, a) IN
                   /\ Entered(g)
                   /\ IF g.state = NULL
                      THEN NullDeref(g, name, t, NoValue)
                      ELSE Returns(g, raise_flag(g.heap[g.state].mem, IEEE754_EXCEPTION_INVALID),
                                   name, t, NoValue, unordered, ZeroState)
       ELSE /\ last' = Call(name, t, NoValue, Bit(rel), ZeroState)
            /\ UNCHANGED <<proc, key_once, tsd, heap, fpu_flags>>
    /\ UNCHANGED <<status, frees, fpu_round, fe_supported, opx, opy>>

\* the shared body raising both invalid flags before it looks at the operands
SignalingCompare_raise_first(t, name, x, y, unordered, rel) ==
    /\ Running(t)
    /\ Step
    /\ fpu_flags' = [fpu_flags EXCEPT ![t] = @ \cup {"FE_INVALID"}]
    /\ \E a \in CallocChoices(t) :
         LET g == get_thread_state(t, a) IN
           /\ Entered(g)
           /\ IF g.state = NULL
              THEN NullDeref(g, name, t, NoValue)
              ELSE Returns(g, raise_flag(g.heap[g.state].mem, IEEE754_EXCEPTION_INVALID),
                           name, t, NoValue,
                           IF isnan(x) \/ isnan(y) THEN unordered ELSE Bit(rel), ZeroState)
    /\ UNCHANGED <<status, frees, fpu_round, fe_supported, opx, opy>>

\* The body shared by the twelve predicates: on a NaN operand
\* feraiseexcept(FE_INVALID), ieee754_raise_exception(INVALID) and the
\* constant unordered; otherwise the C comparison rel.
SignalingCompare(t, name, x, y, unordered, rel) ==
    /\ Running(t)
    /\ Step
    /\ IF isnan(x) \/ isnan(y)
       THEN /\ fpu_flags' = [fpu_flags EXCEPT ![t] = @ \cup {"FE_INVALID"}]
            /\ \E a \in CallocChoices(t) :
                 LET g == get_thread_state(t, a) IN
                   /\ Entered(g)
                   /\ IF g.state = NULL
                      THEN NullDeref(g, name, t, NoValue)
                      ELSE Returns(g, raise_flag(g.heap[g.state].mem, IEEE754_EXCEPTION_INVALID),
                                   name, t, NoValue, unordered, ZeroState)
       ELSE /\ last' = Call(name, t, NoValue, Bit(rel), ZeroState)
            /\ UNCHANGED <<proc, key_once, tsd, heap, fpu_flags>>
    /\ UNCHANGED <<status, frees, fpu_round, fe_supported, opx, opy>>

ieee754_signaling_equal(t, x, y) ==
    SignalingCompare(t, "signaling_equal", x, y, 0, c_eq(x, y))

ieee754_signaling_less(t, x, y) ==
    SignalingCompare(t, "signaling_less", x, y, 0, c_lt(x, y))

ieee754_signaling_less_equal(t, x, y) ==
    SignalingCompare(t, "signaling_less_equal", x, y, 0, c_le(x, y))

ieee754_signaling_greater(t, x, y) ==
    SignalingCompare(t, "signaling_greater", x, y, 0, c_gt(x, y))

\* >= written as >
ieee754_signaling_greater_equal_strict(t, x, y) ==
    SignalingCompare(t, "signaling_greater_equal", x, y, 0, c_gt(x, y))

ieee754_signaling_greater_equal(t, x, y) ==
    SignalingCompare(t, "signaling_greater_equal", x, y, 0, c_ge(x, y))

ieee754_signaling_not_equal(t, x, y) ==
    SignalingCompare(t, "signaling_not_equal", x, y, 1, c_ne(x, y))

ieee754_signaling_equal_f(t, x, y) ==
    SignalingCompare(t, "signaling_equal_f", x, y, 0, c_eq(x, y))

ieee754_signaling_less_f(t, x, y) ==
    SignalingCompare(t, "signaling_less_f", x, y, 0, c_lt(x, y))

ieee754_signaling_less_equal_f(t, x, y) ==
    SignalingCompare(t, "signaling_less_equal_f", x, y, 0, c_le(x, y))

ieee754_signaling_greater_f(t, x, y) ==
    SignalingCompare(t, "signaling_greater_f", x, y, 0, c_gt(x, y))

ieee754_signaling_greater_equal_f(t, x, y) ==
    SignalingCompare(t, "signaling_greater_equal_f", x, y, 0, c_ge(x, y))

\* != returning 0 on a NaN like the other five
ieee754_signaling_not_equal_f_zero(t, x, y) ==
    SignalingCompare(t, "signaling_not_equal_f", x, y, 0, c_ne(x, y))

ieee754_signaling_not_equal_f(t, x, y) ==
    SignalingCompare(t, "signaling_not_equal_f", x, y, 1, c_ne(x, y))

\* one of the twelve predicates, applied by thread t to the client's operands
Compare(t) ==
    \/ ieee754_signaling_equal(t, opx, opy)
    \/ ieee754_signaling_less(t, opx, opy)
    \/ ieee754_signaling_less_equal(t, opx, opy)
    \/ ieee754_signaling_greater(t, opx, opy)
    \/ ieee754_signaling_greater_equal(t, opx, opy)
    \/ ieee754_signaling_not_equal(t, opx, opy)
    \/ ieee754_signaling_equal_f(t, opx, opy)
    \/ ieee754_signaling_less_f(t, opx, opy)
    \/ ieee754_signaling_less_equal_f(t, opx, opy)
    \/ ieee754_signaling_greater_f(t, opx, opy)
    \/ ieee754_signaling_greater_equal_f(t, opx, opy)
    \/ ieee754_signaling_not_equal_f(t, opx, opy)

CompareOps ==
    {"signaling_equal", "signaling_less", "signaling_less_equal",
     "signaling_greater", "signaling_greater_equal", "signaling_not_equal",
     "signaling_equal_f", "signaling_less_f", "signaling_less_equal_f",
     "signaling_greater_f", "signaling_greater_equal_f", "signaling_not_equal_f"}

\* -------------------------------------------------------- specifications
QuietNaN == [sign |-> 0, exp |-> ExpMax, man |-> ManMax]
SignalingNaN == [sign |-> 0, exp |-> ExpMax, man |-> 1]
NegInfinity == [sign |-> 1, exp |-> ExpMax, man |-> 0]
NegZero == [sign |-> 1, exp |-> 0, man |-> 0]
PosZero == [sign |-> 0, exp |-> 0, man |-> 0]
One == [sign |-> 0, exp |-> 1, man |-> 0]

\* the process before any call: no key, no block, default environments
Start ==
    /\ proc = "running"
    /\ status = [t \in Threads |-> "running"]
    /\ key_once = "init"
    /\ tsd = [t \in Threads |-> NULL]
    /\ heap = [a \in Addrs |-> [live |-> FALSE, mem |-> ZeroState]]
    /\ frees = [a \in Addrs |-> 0]
    /\ fpu_flags = [t \in Threads |-> {}]
    /\ fpu_round = [t \in Threads |-> "FE_TONEAREST"]
    /\ last = Call("none", 0, NoValue, NoValue, ZeroState)

StoreActions(t) ==
    \/ \E flag \in FlagArgs : ieee754_raise_exception(t, flag)
    \/ \E flag \in FlagArgs : ieee754_test_exception(t, flag)
    \/ \E flag \in FlagArgs : ieee754_clear_exception(t, flag)
    \/ ieee754_get_exceptions(t)
    \/ ieee754_clear_all_exceptions(t)

HardwareActions(t) ==
    \/ ieee754_test_fpu_exceptions(t)
    \/ ieee754_clear_fpu_exceptions(t)
    \/ \E e \in FE_ALL_EXCEPT : fp_operation(t, e)

RoundingActions(t) ==
    \/ \E mode \in ModeArgs : ieee754_set_rounding_mode(t, mode)
    \/ ieee754_get_rounding_mode(t)
    \/ native_round_extension(t)

\* Spec: every thread, every operation, runs of at most MaxOps steps.
Init ==
    /\ Start
    /\ fe_supported = FE_ROUND_MODES
    /\ opx \in {QuietNaN, One}
    /\ opy = One
    /\ budget = MaxOps

Next ==
    \E t \in Threads :
        \/ StoreActions(t)
        \/ HardwareActions(t)
        \/ RoundingActions(t)
        \/ Compare(t)
        \/ ThreadExit(t)

Spec == Init /\ [][Next]_vars

\* SpecLocal: one thread, the two flag sets and the comparisons, runs of any
\* length.  Other code raises two of the hardware flags, the comparisons a
\* third; every combination of the five software flags is reached.
LocalExcepts == {"FE_OVERFLOW", "FE_INEXACT"}

InitLocal ==
    /\ Start
    /\ fe_supported = FE_ROUND_MODES
    /\ opx \in {QuietNaN, SignalingNaN, NegInfinity, One}
    /\ opy = One
    /\ budget = Unbounded

NextLocal ==
    \/ StoreActions(MainThread)
    \/ ieee754_test_fpu_exceptions(MainThread)
    \/ ieee754_clear_fpu_exceptions(MainThread)
    \/ \E e \in LocalExcepts : fp_operation(MainThread, e)
    \/ Compare(MainThread)

SpecLocal == InitLocal /\ [][NextLocal]_vars

\* SpecCmp: one thread comparing any two operands, runs of any length.
InitCmp ==
    /\ Start
    /\ fe_supported = FE_ROUND_MODES
    /\ opx \in Operands
    /\ opy \in Operands
    /\ budget = Unbounded

NextCmp ==
    \/ Compare(MainThread)
    \/ ieee754_clear_all_exceptions(MainThread)
    \/ ieee754_clear_fpu_exceptions(MainThread)

SpecCmp == InitCmp /\ [][NextCmp]_vars

\* SpecRound: one thread and the rounding direction, on every platform, runs
\* of any length.
InitRound ==
    /\ Start
    /\ fe_supported \in {S \in SUBSET FE_ROUND_MODES : "FE_TONEAREST" \in S}
    /\ opx = One
    /\ opy = One
    /\ budget = Unbounded

NextRound == RoundingActions(MainThread)

SpecRound == InitRound /\ [][NextRound]_vars

\* SpecCtx: two contexts over their whole lives, runs of any length: the
\* main thread and one more thread use the store (two of its flags), compare,
\* touch the hardware flags and the rounding direction, and terminate, so
\* that a block freed by one is handed to the other.
CtxThreads == {MainThread, MainThread + 1}

CtxFlags == {IEEE754_EXCEPTION_INVALID, IEEE754_EXCEPTION_OVERFLOW}

InitCtx ==
    /\ Start
    /\ fe_supported = FE_ROUND_MODES
    /\ opx \in {QuietNaN, One}
    /\ opy = One
    /\ budget = Unbounded

NextCtx ==
    \E t \in CtxThreads :
        \/ \E flag \in CtxFlags : ieee754_raise_exception(t, flag)
        \/ \E flag \in CtxFlags : ieee754_test_exception(t, flag)
        \/ \E flag \in CtxFlags : ieee754_clear_exception(t, flag)
        \/ ieee754_get_exceptions(t)
        \/ ieee754_clear_all_exceptions(t)
        \/ ieee754_signaling_less(t, opx, opy)
        \/ ieee754_signaling_not_equal_f(t, opx, opy)
        \/ ieee754_test_fpu_exceptions(t)
        \/ ieee754_clear_fpu_exceptions(t)
        \/ ieee754_set_rounding_mode(t, IEEE754_ROUND_TOWARDZERO)
        \/ ieee754_get_rounding_mode(t)
        \/ ThreadExit(t)

SpecCtx == InitCtx /\ [][NextCtx]_vars

\* ------------------------------------------------------------ properties
\* the five software flags thread t observes: its block's contents, or the
\* all-clear state its first access will create
Flags(t) == IF tsd[t] = NULL THEN ZeroState ELSE heap[tsd[t]].mem

\* the same, in the state a step leads to
FlagsAfter(t) == IF tsd'[t] = NULL THEN ZeroState ELSE heap'[tsd'[t]].mem

\* the call that just returned was a signaling comparison (of opx with opy)
\* / one with a NaN operand / one with two non-NaN operands
Compared == proc = "running" /\ last.op \in CompareOps

ComparedNaN == Compared /\ (isnan(opx) \/ isnan(opy))

ComparedOrdered == Compared /\ ~isnan(opx) /\ ~isnan(opy)

\* C1: a step of one context leaves every other context's slot and flags as
\* they were, no two contexts share a block, and test/getAll report the
\* caller's own block.
C1_StepIsolated ==
    \A b \in Threads :
        b # last'.t =>
            /\ tsd'[b] = tsd[b]
            /\ tsd[b] # NULL => heap'[tsd[b]] = heap[tsd[b]]

C1_OwnBlock ==
    /\ \A a, b \in Threads : (a # b /\ tsd[a] # NULL) => tsd[a] # tsd[b]
    /\ \A a \in Threads : tsd[a] # NULL => heap[tsd[a]].live
    /\ (proc = "running" /\ last.op = "test") =>
           last.ret = test_flag(Flags(last.t), last.arg)
    /\ (proc = "running" /\ last.op = "getAll") =>
           last.set = Flags(last.t)

C1_FlagIsolation == [][C1_StepIsolated]_vars /\ []C1_OwnBlock

\* C1 witness: context 1 has overflow raised and context 2's test(Overflow)
\* has just returned false.
C1_Witness ==
    /\ proc = "running"
    /\ last.op = "test" /\ last.t = 2 /\ last.arg = IEEE754_EXCEPTION_OVERFLOW
    /\ last.ret = 0
    /\ tsd[1] # NULL /\ heap[tsd[1]].mem.overflow = 1

\* C2: a comparison with a NaN operand returns 0 from eq, lt, le, gt, ge and
\* 1 from ne, in both widths and both argument orders.
C2_NaNUnordered ==
    ComparedNaN =>
        last.ret = IF last.op \in {"signaling_not_equal", "signaling_not_equal_f"}
                   THEN 1 ELSE 0

\* C2 witness: ne_f(+infinity, signaling NaN) has returned 1.
C2_Witness ==
    /\ ComparedNaN
    /\ last.op = "signaling_not_equal_f"
    /\ opx = [sign |-> 0, exp |-> ExpMax, man |-> 0]
    /\ isnan(opy) /\ ~IsQuiet(opy)
    /\ last.ret = 1

\* C3: a comparison with a NaN operand sets the caller's software invalid
\* flag and leaves its other four software flags as they were (so right
\* after clearAll() it leaves invalid alone set).
C3_Step ==
    ComparedNaN' =>
        /\ FlagsAfter(last'.t) = [Flags(last'.t) EXCEPT !.invalid = 1]
        /\ (last.op = "clearAll" /\ last.t = last'.t) =>
               FlagsAfter(last'.t) = [ZeroState EXCEPT !.invalid = 1]

C3_NaNRaisesInvalidOnly == [][C3_Step]_vars

\* C3 witness: a NaN comparison has returned in a context whose overflow
\* flag was raised before: invalid and overflow are set, the rest clear.
C3_Witness ==
    /\ ComparedNaN
    /\ Flags(last.t) = [invalid |-> 1, divByZero |-> 0, overflow |-> 1,
                        underflow |-> 0, inexact |-> 0]

\* C4: on return from a comparison with a NaN operand the hardware invalid
\* flag and the software invalid flag are both set, and a
\* testHardwareExceptions() that follows reports invalid.
C4_BothRaised ==
    ComparedNaN =>
        /\ "FE_INVALID" \in fpu_flags[last.t]
        /\ tsd[last.t] # NULL
        /\ heap[tsd[last.t]].mem.invalid = 1

C4_TestSeesInvalid ==
    (ComparedNaN /\ last'.op = "testHardware" /\ last'.t = last.t) =>
        last'.set.invalid = 1

C4_NaNRaisesHardwareInvalid == []C4_BothRaised /\ [][C4_TestSeesInvalid]_vars

\* C4 witness: testHardwareExceptions() reports invalid alone, raised by a
\* NaN comparison made after the hardware flags were cleared.
C4_Witness ==
    /\ proc = "running"
    /\ last.op = "testHardware"
    /\ last.set = [ZeroState EXCEPT !.invalid = 1]
    /\ isnan(opx)
    /\ Flags(last.t).invalid = 1

\* C5: a comparison of two non-NaN operands leaves the five software flags
\* and the five hardware flags of every context as they were.
C5_Step ==
    ComparedOrdered' =>
        /\ fpu_flags' = fpu_flags
        /\ \A t \in Threads : FlagsAfter(t) = Flags(t)

C5_OrderedTouchesNoFlag == [][C5_Step]_vars

\* C5 witness: two non-NaN operands have been compared in a context with
\* software and hardware flags raised, invalid not among them.
C5_Witness ==
    /\ ComparedOrdered
    /\ Flags(last.t) = [invalid |-> 0, divByZero |-> 1, overflow |-> 0,
                        underflow |-> 0, inexact |-> 1]
    /\ fpu_flags[last.t] = {"FE_OVERFLOW", "FE_INEXACT"}

\* C6: on non-NaN operands each predicate returns 1 exactly when its numeric
\* relation holds between the operands' values, else 0.
C6_Relation(op, x, y) ==
    CASE op \in {"signaling_equal", "signaling_equal_f"} -> Value(x) = Value(y)
      [] op \in {"signaling_less", "signaling_less_f"} -> Value(x) < Value(y)
      [] op \in {"signaling_less_equal", "signaling_less_equal_f"} -> Value(x) <= Value(y)
      [] op \in {"signaling_greater", "signaling_greater_f"} -> Value(x) > Value(y)
      [] op \in {"signaling_greater_equal", "signaling_greater_equal_f"} -> Value(x) >= Value(y)
      [] op \in {"signaling_not_equal", "signaling_not_equal_f"} -> Value(x) # Value(y)

C6_OrderedResult ==
    ComparedOrdered =>
        /\ last.ret \in {0, 1}
        /\ last.ret = 1 <=> C6_Relation(last.op, opx, opy)

\* C6 witness: ge(-0, +0) has returned 1.
C6_Witness ==
    /\ ComparedOrdered
    /\ last.op = "signaling_greater_equal"
    /\ opx = NegZero /\ opy = PosZero
    /\ last.ret = 1

\* the native direction each of the four defined modes stands for
C7_Native(m) ==
    CASE m = IEEE754_ROUND_TONEAREST -> "FE_TONEAREST"
      [] m = IEEE754_ROUND_DOWNWARD -> "FE_DOWNWARD"
      [] m = IEEE754_ROUND_UPWARD -> "FE_UPWARD"
      [] m = IEEE754_ROUND_TOWARDZERO -> "FE_TOWARDZERO"

DefinedModes == {IEEE754_ROUND_TONEAREST, IEEE754_ROUND_DOWNWARD, IEEE754_ROUND_UPWARD, IEEE754_ROUND_TOWARDZERO}

\* C7 as stated: getRoundingMode() right after setRoundingMode(m), m one of
\* the four modes, returns m.
C7_SetThenGet ==
    (/\ last.op = "setRoundingMode" /\ last.arg \in DefinedModes
     /\ last'.op = "getRoundingMode" /\ last'.t = last.t) =>
        last'.ret = last.arg

C7_RoundTrip == [][C7_SetThenGet]_vars

\* C7 amended: getRoundingMode() right after a setRoundingMode(m) that
\* returned 0, m one of the four modes, returns m; and the two mappings are
\* inverses of each other on the four modes.
C7_SetOkThenGet ==
    (/\ last.op = "setRoundingMode" /\ last.arg \in DefinedModes /\ last.ret = 0
     /\ last'.op = "getRoundingMode" /\ last'.t = last.t) =>
        last'.ret = last.arg

C7_Inverse ==
    /\ \A m \in DefinedModes : fe_round_to_ieee754(ieee754_to_fe_round(m)) = m
    /\ \A fe \in FE_ROUND_MODES : ieee754_to_fe_round(fe_round_to_ieee754(fe)) = fe

C7_RoundTripOnSuccess == [][C7_SetOkThenGet]_vars /\ []C7_Inverse

\* C7 witness: getRoundingMode() has returned TowardZero, which only a
\* successful setRoundingMode(TowardZero) installs.
C7_Witness ==
    /\ last.op = "getRoundingMode"
    /\ last.ret = IEEE754_ROUND_TOWARDZERO
    /\ fpu_round[last.t] = "FE_TOWARDZERO"

\* C8: setRoundingMode(mode) returns non-zero whenever the platform cannot
\* represent the requested mode, returns 0 only when the requested mode is
\* the active one on return, and leaves the active mode alone when it fails.
C8_Representable(m) == m \in DefinedModes /\ C7_Native(m) \in fe_supported

C8_Step ==
    last'.op = "setRoundingMode" =>
        /\ ~C8_Representable(last'.arg) => last'.ret # 0
        /\ last'.ret = 0 =>
               /\ C8_Representable(last'.arg)
               /\ fpu_round'[last'.t] = C7_Native(last'.arg)
        /\ last'.ret # 0 => fpu_round' = fpu_round

C9_GetTotal ==
    last.op = "getRoundingMode" =>
        /\ last.ret \in DefinedModes
        /\ fpu_round[last.t] \notin FE_ROUND_MODES => last.ret = IEEE754_ROUND_TONEAREST

\* C9 witness: getRoundingMode() has returned ToNearestEven while the
\* native direction is outside the four.
C9_Witness ==
    /\ last.op = "getRoundingMode"
    /\ fpu_round[last.t] = "FE_OTHER"
    /\ last.ret = IEEE754_ROUND_TONEAREST

\* C10: a raise(f) right after raise(f) changes none of the five flags, and
\* clear(f) where f is clear changes none of the five flags.
C10_Step ==
    /\ (/\ proc' = "running"
        /\ last.op = "raise" /\ last'.op = "raise"
        /\ last'.t = last.t /\ last'.arg = last.arg
        /\ last.arg \in DefinedFlags) =>
           FlagsAfter(last.t) = Flags(last.t)
    /\ (/\ proc' = "running"
        /\ last'.op = "clear" /\ last'.arg \in DefinedFlags
        /\ test_flag(Flags(last'.t), last'.arg) = 0) =>
           FlagsAfter(last'.t) = Flags(last'.t)

C10_Idempotent == [][C10_Step]_vars

\* C10 witness: raise(Underflow) has returned in a context where underflow
\* and two other flags are set.
C10_Witness ==
    /\ proc = "running"
    /\ last.op = "raise" /\ last.arg = IEEE754_EXCEPTION_UNDERFLOW
    /\ Flags(last.t) = [invalid |-> 1, divByZero |-> 0, overflow |-> 0,
                        underflow |-> 1, inexact |-> 1]

\* the field of a flag set that holds flag f (f one of the five)
FieldOf(set, f) ==
    set[CASE f = IEEE754_EXCEPTION_INVALID -> "invalid"
          [] f = IEEE754_EXCEPTION_DIVBYZERO -> "divByZero"
          [] f = IEEE754_EXCEPTION_OVERFLOW -> "overflow"
          [] f = IEEE754_EXCEPTION_UNDERFLOW -> "underflow"
          [] f = IEEE754_EXCEPTION_INEXACT -> "inexact"]

\* the store call named op has just returned to its caller
Returned(op) == proc = "running" /\ last.op = op

\* C11: raise(f) leaves flag f set and clear(f) leaves it clear in the
\* caller's store, each keeping the other four flags at their previous
\* values; so raise(DivByZero) right after clearAll() leaves divByZero alone
\* set, and that is what a getAll() reports.
C11_Step ==
    /\ (Returned("raise")' /\ last'.arg \in DefinedFlags) =>
           \A g \in DefinedFlags :
               FieldOf(FlagsAfter(last'.t), g) =
                   IF g = last'.arg THEN 1 ELSE FieldOf(Flags(last'.t), g)
    /\ (Returned("clear")' /\ last'.arg \in DefinedFlags) =>
           \A g \in DefinedFlags :
               FieldOf(FlagsAfter(last'.t), g) =
                   IF g = last'.arg THEN 0 ELSE FieldOf(Flags(last'.t), g)
    /\ (/\ Returned("clearAll") /\ Returned("raise")' /\ last'.t = last.t
        /\ last'.arg = IEEE754_EXCEPTION_DIVBYZERO) =>
           FlagsAfter(last.t) = [invalid |-> 0, divByZero |-> 1, overflow |-> 0,
                                 underflow |-> 0, inexact |-> 0]
    /\ Returned("getAll")' => last'.set = Flags(last'.t)

C11_FlagsIndependent == [][C11_Step]_vars

\* C11 witness: clear(Overflow) has returned in a context where overflow is
\* clear and invalid and inexact are still set.
C11_Witness ==
    /\ Returned("clear") /\ last.arg = IEEE754_EXCEPTION_OVERFLOW
    /\ Flags(last.t) = [invalid |-> 1, divByZero |-> 0, overflow |-> 0,
                        underflow |-> 0, inexact |-> 1]

\* C12: when clearAll() returns, the caller's five flags are all clear
\* whatever they were before, and a getAll() or test(f) that the same
\* context makes next reports every flag clear.
C12_AllClear == Returned("clearAll") => Flags(last.t) = ZeroState

C12_Step ==
    /\ Returned("clearAll")' => FlagsAfter(last'.t) = ZeroState
    /\ (Returned("clearAll") /\ Returned("getAll")' /\ last'.t = last.t) =>
           last'.set = ZeroState
    /\ (Returned("clearAll") /\ Returned("test")' /\ last'.t = last.t) =>
           last'.ret = 0

C12_ClearAllResets == []C12_AllClear /\ [][C12_Step]_vars

\* C12 witness: clearAll() has returned with all five flags clear in a
\* context whose NaN comparison had raised invalid in both flag sets.
C12_Witness ==
    /\ Returned("clearAll")
    /\ Flags(last.t) = ZeroState
    /\ isnan(opx)
    /\ fpu_flags[last.t] = {"FE_INVALID", "FE_OVERFLOW"}

\* C13: test(f) and getAll() leave the five flags of every context as they
\* were; test(f) returns the value flag f holds, every field of getAll()
\* holds the value of its flag, and so a test(f) next to a getAll() in the
\* same context agrees with the snapshot's field for f.
C13_Step ==
    /\ (Returned("test")' \/ Returned("getAll")') =>
           \A t \in Threads : FlagsAfter(t) = Flags(t)
    /\ (Returned("test")' /\ last'.arg \in DefinedFlags) =>
           last'.ret = FieldOf(Flags(last'.t), last'.arg)
    /\ Returned("getAll")' =>
           \A g \in DefinedFlags :
               FieldOf(last'.set, g) = FieldOf(Flags(last'.t), g)
    /\ (/\ Returned("getAll") /\ Returned("test")' /\ last'.t = last.t
        /\ last'.arg \in DefinedFlags) =>
           last'.ret = FieldOf(last.set, last'.arg)
    /\ (/\ Returned("test") /\ Returned("getAll")' /\ last'.t = last.t
        /\ last.arg \in DefinedFlags) =>
           FieldOf(last'.set, last.arg) = last.ret

C13_PureObservers == [][C13_Step]_vars

\* C13 witness: getAll() has returned underflow and divByZero set and the
\* other three clear, the flags the context holds.
C13_Witness ==
    /\ Returned("getAll")
    /\ last.set = [invalid |-> 0, divByZero |-> 1, overflow |-> 0,
                   underflow |-> 1, inexact |-> 0]
    /\ Flags(last.t) = last.set

\* the step is a return of clear(f) or of clearAll() to context t
C14_Clears(t, f) ==
    /\ last'.t = t
    /\ \/ last'.op = "clearAll"
       \/ last'.op = "clear" /\ last'.arg = f

\* C14: a flag f that is set in a context stays set over every step of any
\* context (store calls on other flags, test, getAll, comparisons,
\* rounding-mode and hardware calls, the end of another context) other than
\* that context's own clear(f) or clearAll(), for as long as the context
\* lives; a raise(f) or a NaN comparison (for invalid) leaves the flag set,
\* and a test(f) of a set flag returns 1.
C14_Step ==
    /\ \A t \in Threads : \A f \in DefinedFlags :
           (/\ FieldOf(Flags(t), f) = 1
            /\ ~C14_Clears(t, f)
            /\ Running(t)') =>
               FieldOf(FlagsAfter(t), f) = 1
    /\ (Returned("raise")' /\ last'.arg \in DefinedFlags) =>
           FieldOf(FlagsAfter(last'.t), last'.arg) = 1
    /\ ComparedNaN' => FlagsAfter(last'.t).invalid = 1
    /\ (Returned("test")' /\ last'.arg \in DefinedFlags) =>
           (FieldOf(Flags(last'.t), last'.arg) = 1 => last'.ret = 1)

C14_Sticky == [][C14_Step]_vars

\* C14 witness: test(Invalid) has returned 1 in the main context, whose
\* flag a NaN comparison raised, after the other context, which had raised
\* flags of its own and changed its rounding direction, has ended.
C14_Witness ==
    /\ Returned("test") /\ last.t = MainThread
    /\ last.arg = IEEE754_EXCEPTION_INVALID /\ last.ret = 1
    /\ "FE_INVALID" \in fpu_flags[MainThread]
    /\ status[MainThread + 1] = "exited"
    /\ frees[tsd[MainThread]] = 0
    /\ \E a \in Addrs : frees[a] = 1 /\ heap[a].mem.overflow = 1
    /\ fpu_round[MainThread + 1] = "FE_TOWARDZERO"

\* C15: raise, clear and clearAll leave the hardware flags of every context
\* as they were, and clearHardwareExceptions and testHardwareExceptions
\* leave every slot and block of the store as they were; so after a NaN
\* comparison clearAll() leaves hardware invalid set and
\* clearHardwareExceptions() leaves software invalid set.
C15_Step ==
    /\ (Returned("raise")' \/ Returned("clear")' \/ Returned("clearAll")') =>
           fpu_flags' = fpu_flags
    /\ last'.op \in {"clearHardware", "testHardware"} =>
           /\ tsd' = tsd /\ heap' = heap
           /\ \A t \in Threads : FlagsAfter(t) = Flags(t)
    /\ (ComparedNaN /\ Returned("clearAll")' /\ last'.t = last.t) =>
           "FE_INVALID" \in fpu_flags'[last.t]
    /\ (ComparedNaN /\ last'.op = "clearHardware" /\ last'.t = last.t) =>
           FlagsAfter(last.t).invalid = 1

C15_NoImplicitSync == [][C15_Step]_vars

\* C15 witness: clearHardwareExceptions() has returned in a context that
\* compared a NaN: no hardware flag is set, software invalid still is.
C15_Witness ==
    /\ last.op = "clearHardware"
    /\ isnan(opx)
    /\ fpu_flags[last.t] = {}
    /\ Flags(last.t) = [invalid |-> 1, divByZero |-> 0, overflow |-> 0,
                        underflow |-> 0, inexact |-> 0]

\* the hardware flag each field of a flag set stands for
C16_Hardware(field) ==
    CASE field = "invalid" -> "FE_INVALID"
      [] field = "divByZero" -> "FE_DIVBYZERO"
      [] field = "overflow" -> "FE_OVERFLOW"
      [] field = "underflow" -> "FE_UNDERFLOW"
      [] field = "inexact" -> "FE_INEXACT"

\* C16: clearHardwareExceptions() leaves none of the caller's five hardware
\* flags set, and called where none is set (as right after itself) it
\* changes nothing; testHardwareExceptions() leaves the hardware flags as
\* they were and returns, field by field, whether each flag is set, so a
\* second call right after the first returns the same set.
C16_Step ==
    /\ last'.op = "clearHardware" =>
           /\ fpu_flags'[last'.t] \cap FE_ALL_EXCEPT = {}
           /\ \A t \in Threads : t # last'.t => fpu_flags'[t] = fpu_flags[t]
           /\ fpu_flags[last'.t] \cap FE_ALL_EXCEPT = {} => fpu_flags' = fpu_flags
    /\ (last.op = "clearHardware" /\ last'.op = "clearHardware" /\ last'.t = last.t) =>
           fpu_flags' = fpu_flags
    /\ last'.op = "testHardware" =>
           /\ fpu_flags' = fpu_flags
           /\ \A field \in DOMAIN last'.set :
                  last'.set[field] = 1 <=> C16_Hardware(field) \in fpu_flags[last'.t]
           /\ \A field \in DOMAIN last'.set : last'.set[field] \in {0, 1}
    /\ (last.op = "testHardware" /\ last'.op = "testHardware" /\ last'.t = last.t) =>
           last'.set = last.set

C16_HardwareInspector == [][C16_Step]_vars

\* C16 witness: testHardwareExceptions() has returned invalid, overflow and
\* inexact set, the three hardware flags that are raised, which stay raised.
C16_Witness ==
    /\ last.op = "testHardware"
    /\ last.set = [invalid |-> 1, divByZero |-> 0, overflow |-> 1,
                   underflow |-> 0, inexact |-> 1]
    /\ fpu_flags[last.t] = {"FE_INVALID", "FE_OVERFLOW", "FE_INEXACT"}

\* C17: a block is freed only by the end of the thread that owns it, which
\* frees it once with no call made for it; the block of a thread that still
\* runs is live, and every live block is the block of a thread that still
\* runs.
C17_Step ==
    /\ \A a \in Addrs :
           (frees'[a] # frees[a] \/ (heap[a].live /\ ~heap'[a].live)) =>
               /\ last'.op = "exit"
               /\ tsd[last'.t] = a
               /\ heap[a].live /\ ~heap'[a].live
               /\ frees'[a] = frees[a] + 1
    /\ (last'.op = "exit" /\ tsd[last'.t] # NULL) =>
           /\ ~heap'[tsd[last'.t]].live
           /\ frees'[tsd[last'.t]] = frees[tsd[last'.t]] + 1
           /\ tsd'[last'.t] = NULL

C17_Owned ==
    /\ \A t \in Threads :
           (status[t] = "running" /\ tsd[t] # NULL) => heap[tsd[t]].live
    /\ \A a \in Addrs :
           heap[a].live => \E t \in Threads : status[t] = "running" /\ tsd[t] = a
    /\ \A t \in Threads : status[t] = "exited" => tsd[t] = NULL

C17_ReleasedAtThreadEnd == [][C17_Step]_vars /\ []C17_Owned

\* C17 witness: both contexts have ended; one block served them in turn and
\* was freed twice, once at the end of each, and no block is live.
C17_Witness ==
    /\ proc = "running"
    /\ \A t \in CtxThreads : status[t] = "exited"
    /\ \E a \in Addrs : frees[a] = 2
    /\ \A a \in Addrs : ~heap[a].live

\* the calls that go through get_thread_state
StoreOps == {"raise", "test", "clear", "getAll", "clearAll"}

C18_UsesStore ==
    proc = "running" /\ (last.op \in StoreOps \/ ComparedNaN)

RECURSIVE C18_Freed(_)
C18_Freed(S) ==
    IF S = {} THEN 0
    ELSE LET a == CHOOSE b \in S : TRUE IN frees[a] + C18_Freed(S \ {a})

\* C18: a context has no block until its first store call, which gives it a
\* block that was not live and whose five flags are clear before the call
\* acts on them (a first test(f) returns 0, a first getAll() all clear);
\* the context keeps that block for as long as it lives, a block is only
\* ever created by a call of a context that has none, and the blocks ever
\* created are no more than the contexts that have used the store.
C18_Step ==
    /\ (C18_UsesStore' /\ tsd[last'.t] = NULL) =>
           /\ tsd'[last'.t] # NULL
           /\ ~heap[tsd'[last'.t]].live /\ heap'[tsd'[last'.t]].live
           /\ last'.op = "test" => last'.ret = 0
           /\ last'.op = "getAll" => last'.set = ZeroState
           /\ \A g \in DefinedFlags :
                  FieldOf(FlagsAfter(last'.t), g) = 1 =>
                      \/ last'.op = "raise" /\ last'.arg = g
                      \/ ComparedNaN' /\ g = IEEE754_EXCEPTION_INVALID
    /\ \A t \in Threads :
           (tsd[t] # NULL /\ status'[t] = "running") => tsd'[t] = tsd[t]
    /\ \A a \in Addrs :
           (heap'[a].live /\ ~heap[a].live) =>
               /\ C18_UsesStore'
               /\ tsd[last'.t] = NULL /\ tsd'[last'.t] = a
    /\ \A t \in Threads :
           (tsd[t] = NULL /\ tsd'[t] # NULL) => (C18_UsesStore' /\ last'.t = t)

C18_OnePerContext ==
    /\ key_once = "init" => \A t \in Threads : tsd[t] = NULL
    /\ C18_Freed(Addrs) + Cardinality({a \in Addrs : heap[a].live})
           <= Cardinality({t \in Threads : tsd[t] # NULL \/ status[t] = "exited"})

C18_LazyOncePerContext == [][C18_Step]_vars /\ []C18_OnePerContext

\* C18 witness: the main context's first call, a getAll(), has returned all
\* five flags clear from a block that the other context, which had compared
\* a NaN, used and freed before.
C18_Witness ==
    /\ Returned("getAll") /\ last.t = MainThread
    /\ last.set = ZeroState
    /\ frees[tsd[MainThread]] = 1
    /\ status[MainThread + 1] = "exited"
    /\ "FE_INVALID" \in fpu_flags[MainThread + 1]
    /\ "FE_INVALID" \notin fpu_flags[MainThread]

\* the call that just ran reads or writes through the pointer
\* get_thread_state gave it
C19_Dereferences ==
    \/ last.op \in {"getAll", "clearAll"}
    \/ last.op \in {"raise", "test", "clear"} /\ last.arg \in DefinedFlags
    \/ last.op \in CompareOps /\ (isnan(opx) \/ isnan(opy))

\* C19: every store call and every NaN comparison works on a block:
\* get_thread_state never hands its caller a null pointer that the caller
\* dereferences, not even when the allocation of the thread's block fails;
\* so no call ends the process, and the context of a call that went through
\* the pointer has a live block in its slot.
C19_NonNullState ==
    /\ proc # "crashed"
    /\ C19_Dereferences => (tsd[last.t] # NULL /\ heap[tsd[last.t]].live)

\* every int of every block of the store is 0 or 1
C20_Boolean ==
    \A a \in Addrs : \A field \in DOMAIN heap[a].mem : heap[a].mem[field] \in {0, 1}

\* C20: with a flag value outside the five, raise and clear return leaving
\* every slot and every block as the call's entry found or made them (the
\* five flags of every context unchanged), and test returns 0; and every
\* stored flag is 0 or 1 at all times.
C20_Step ==
    /\ (last'.op \in {"raise", "clear", "test"} /\ last'.arg \notin DefinedFlags) =>
           /\ proc' = "running"
           /\ \A t \in Threads : FlagsAfter(t) = Flags(t)
           /\ \A a \in Addrs : heap[a].live => heap'[a] = heap[a]
           /\ fpu_flags' = fpu_flags
    /\ (last'.op = "test" /\ last'.arg \notin DefinedFlags) => last'.ret = 0

C20_UndefinedFlagIgnored == [][C20_Step]_vars /\ []C20_Boolean

\* C20 witness: raise of the flag value just past inexact has returned in
\* a context where divByZero and inexact are set and the rest are clear.
C20_Witness ==
    /\ Returned("raise") /\ last.arg = IEEE754_EXCEPTION_INEXACT + 1
    /\ Flags(last.t) = [invalid |-> 0, divByZero |-> 1, overflow |-> 0,
                        underflow |-> 0, inexact |-> 1]

====
